---- MODULE Spec2Model ----
(***************************************************************************)
(* The Home screen's feed activation and refresh coordinator:              *)
(* HomeScreen (pinned-feed reconciliation, page selection) and FeedPage    *)
(* (poll timer, soft reset, focus effects) as one state machine.           *)
(*                                                                         *)
(* One action is one event as React processes it: the handler, the         *)
(* re-render it causes and the effects of that commit (cleanups first,     *)
(* then setups, pages in render order).  The reconcile effect of           *)
(* HomeScreen is a step of its own, because it re-triggers itself through  *)
(* its own dependency (customFeeds).                                       *)
(***************************************************************************)
EXTENDS Integers, Sequences, FiniteSets, TLC

\* Number of distinct feed URIs the user can pin (bound of the model).
NumFeeds == 2

\* The invocation counts of the mount scenario saturate here (bound of the model).
MaxCount == 3

\* The React key of the main FeedPage (key="1"); custom pages are keyed by URI.
MainKey == 0
\* The identity of store.me.mainFeed; custom controllers get ids from CtlPool.
MainFeed == 0

URIs == 1..NumFeeds
PageKeys == {MainKey} \cup URIs
CtlPool == 1..(2 * NumFeeds)
CtlIds == {MainFeed} \cup CtlPool
\* AppState's values; 'inactive' behaves as 'background' does (not 'active').
AppStates == {"active", "background"}
NoPage == MainKey - 1

\* store.me.savedFeeds.pinned: ordered, without repetition.
PinnedSeqs ==
  {s \in UNION {[1..n -> [uri : URIs]] : n \in 0..NumFeeds} :
     \A i, j \in DOMAIN s : i # j => s[i].uri # s[j].uri}

VARIABLES
  pinned,         \* store.me.savedFeeds.pinned
  customFeeds,    \* HomeScreen state: the custom-feed controllers, in page order
  selectedPage,   \* HomeScreen state: the selected page index
  effectPending,  \* the reconcile effect's dependencies changed since it last ran
  appState,       \* useAppState's appState
  tabInside,      \* the Home tab is the active tab
  homeOnTop,      \* the Home screen is the top of the Home tab's stack
  ctl,            \* the feed controllers' flags, by identity
  timers,         \* per page: the doPoll closures of its live intervals
  subs,           \* per page: the onSoftReset closures subscribed to the store
  listeners,      \* per page: the controllers its registerListeners() is live on
  calls,          \* the collaborator calls made by the last event, in order
  ev,             \* the last event
  faulty,         \* teardown steps of the collaborators may throw
  tracking,       \* the completion of checkForLatest() calls is followed
  crashed,        \* a teardown step threw out of an effect cleanup
  mon,            \* history: the main page's checkForLatest() calls since mount
  shell,          \* store.shell: minimalShellMode and isDrawerSwipeDisabled
  modal,          \* the mute-list modal: open or not, and its component state
  reqs,           \* the ListModel.createModList calls in flight
  mev             \* the last event of the mute-list modal

homeVars == <<pinned, customFeeds, selectedPage, effectPending, appState,
              tabInside, homeOnTop, ctl, timers, subs, listeners, calls, ev,
              faulty, tracking, crashed, mon, shell>>

modalVars == <<modal, reqs, mev>>

vars == <<homeVars, modalVars>>

----------------------------------------------------------------------------
(* What a render of HomeScreen and its pages reads. *)

CurView ==
  [app |-> appState, tab |-> tabInside, top |-> homeOnTop,
   sel |-> selectedPage, feeds |-> customFeeds]

\* useIsFocused(): the Home screen is focused when its tab is active and it is
\* on top of the tab's stack.
IsScreenFocused(v) == v.tab /\ v.top

\* customFeeds.map(f => f.params.feed)
FeedUris(feeds) == [i \in DOMAIN feeds |-> feeds[i].feed]

\* pinned.map(p => p.uri)
PinnedUris(p) == [i \in DOMAIN p |-> p[i].uri]

\* The pages HomeScreen renders, in order: the main page, then one per controller.
PageSeq(v) == <<MainKey>> \o FeedUris(v.feeds)

Mounted(v, k) == k = MainKey \/ \E i \in DOMAIN v.feeds : v.feeds[i].feed = k

PageIndex(v, k) ==
  IF k = MainKey THEN 0 ELSE CHOOSE i \in DOMAIN v.feeds : v.feeds[i].feed = k

\* Mutant of IsPageFocused: a custom page compares selectedPage with its
\* index in customFeeds instead of 1 + index.
IsPageFocusedOffByOne(v, k) ==
  /\ Mounted(v, k)
  /\ v.sel = (IF k = MainKey THEN 0 ELSE PageIndex(v, k) - 1)

\* isPageFocused={selectedPage === 0} / {selectedPage === 1 + index}
IsPageFocused(v, k) == Mounted(v, k) /\ v.sel = PageIndex(v, k)

\* feed={store.me.mainFeed} / feed={f}
FeedProp(v, k) == IF k = MainKey THEN MainFeed ELSE v.feeds[PageIndex(v, k)].id

\* The values doPoll closes over: [appState, isScreenFocused, isPageFocused, feed].
DoPollClosure(v, k) ==
  [app |-> v.app, screen |-> IsScreenFocused(v), page |-> IsPageFocused(v, k),
   feed |-> FeedProp(v, k)]

\* The values onSoftReset closes over: [isPageFocused, feed].
OnSoftResetClosure(v, k) ==
  [page |-> IsPageFocused(v, k), feed |-> FeedProp(v, k)]

Call(op, k, f, by) == [op |-> op, page |-> k, feed |-> f, by |-> by]

----------------------------------------------------------------------------
(* FeedPage's callbacks. *)

\* Mutant of DoPoll: the page-focus flag is not part of the guard.
DoPollIgnoringPageFocus(c, k, knownActive, cs, by) ==
  IF (~knownActive /\ c.app # "active") \/ ~c.screen
  THEN <<>>
  ELSE IF cs[c.feed].isLoading
       THEN <<>>
       ELSE <<Call("checkForLatest", k, c.feed, by)>>

\* doPoll(knownActive): the guarded check for new posts.
DoPoll(c, k, knownActive, cs, by) ==
  IF (~knownActive /\ c.app # "active") \/ ~c.screen \/ ~c.page
  THEN <<>>
  ELSE IF cs[c.feed].isLoading
       THEN <<>>
       ELSE <<Call("checkForLatest", k, c.feed, by)>>

\* Mutant of OnSoftReset: the handler acts whatever the page's focus.
OnSoftResetUnguarded(c, k) ==
  <<Call("scrollToTop", k, c.feed, "softReset"),
    Call("refresh", k, c.feed, "softReset")>>

\* onSoftReset(): scroll to top, then refresh, on the focused page only.
OnSoftReset(c, k) ==
  IF c.page
  THEN <<Call("scrollToTop", k, c.feed, "softReset"),
         Call("refresh", k, c.feed, "softReset")>>
  ELSE <<>>

\* Mutant of TabFocusCallback: the callback does not test isPageFocused.
TabFocusCallbackUnguarded(v, k, isInside) ==
  IF ~isInside
  THEN <<>>
  ELSE <<Call("checkForLatest", k, FeedProp(v, k), "tab")>>

\* The tab-focus callback: isInside => check for latest on the focused page.
TabFocusCallback(v, k, isInside) ==
  IF ~IsPageFocused(v, k) \/ ~isInside
  THEN <<>>
  ELSE <<Call("checkForLatest", k, FeedProp(v, k), "tab")>>

\* onPressLoadLatest(): scrollToTop(); feed.refresh()
OnPressLoadLatest(v, k) ==
  <<Call("scrollToTop", k, FeedProp(v, k), "press"),
    Call("refresh", k, FeedProp(v, k), "press")>>

\* onPressTryAgain(): feed.refresh()
OnPressTryAgain(v, k) == <<Call("refresh", k, FeedProp(v, k), "press")>>

----------------------------------------------------------------------------
(* The registrations the focus effect makes and releases. *)

SetInterval(ts, c) == ts \cup {c}

\* Mutant of ClearInterval: the interval is left running.
ClearIntervalForgotten(ts, c) == ts

ClearInterval(ts, c) == ts \ {c}
OnScreenSoftReset(ss, c) == ss \cup {c}

\* Mutant of SoftResetSubRemove: the subscription is left in place.
SoftResetSubRemoveForgotten(ss, c) == ss

SoftResetSubRemove(ss, c) == ss \ {c}
RegisterListeners(ls, f) == ls \cup {f}

\* Mutant of FeedCleanup: the listeners are left registered.
FeedCleanupForgotten(ls, f) == ls

FeedCleanup(ls, f) == ls \ {f}

\* A teardown step that throws: the page whose cleanup it is, and the step.
NoThrow == [page |-> NoPage, step |-> "none"]

----------------------------------------------------------------------------
(* FeedPage's effects, between the previous render (old) and the new one. *)

\* Mutant of FocusEffectActive: the effect is set up only while the page is
\* the selected one.
FocusEffectActiveOnPageFocus(v, k) ==
  Mounted(v, k) /\ IsScreenFocused(v) /\ IsPageFocused(v, k)

\* useFocusEffect: the effect is set up while the page is mounted and the
\* screen is focused.
FocusEffectActive(v, k) == Mounted(v, k) /\ IsScreenFocused(v)

\* Mutant of FocusEffectChanged: appState is missing from doPoll's dependencies,
\* so a change of it alone leaves the old doPoll in the interval.
FocusEffectChangedWithoutAppState(old, new, k) ==
  /\ Mounted(old, k)
  /\ Mounted(new, k)
  /\ [DoPollClosure(old, k) EXCEPT !.app = "active"]
       # [DoPollClosure(new, k) EXCEPT !.app = "active"]

\* Mutant of FocusEffectChanged: isPageFocused is missing from the dependencies
\* of doPoll and onSoftReset, so a change of it alone leaves the old callbacks
\* registered.
FocusEffectChangedWithoutPageFocus(old, new, k) ==
  /\ Mounted(old, k)
  /\ Mounted(new, k)
  /\ [DoPollClosure(old, k) EXCEPT !.page = TRUE]
       # [DoPollClosure(new, k) EXCEPT !.page = TRUE]

\* The effect callback's dependencies [store, doPoll, onSoftReset, screen, feed]
\* change exactly when doPoll's closure does (onSoftReset's is part of it).
FocusEffectChanged(old, new, k) ==
  /\ Mounted(old, k)
  /\ Mounted(new, k)
  /\ DoPollClosure(old, k) # DoPollClosure(new, k)

RunsCleanup(old, new, k) ==
  /\ FocusEffectActive(old, k)
  /\ ~FocusEffectActive(new, k) \/ FocusEffectChanged(old, new, k)

RunsSetup(old, new, k) ==
  /\ FocusEffectActive(new, k)
  /\ ~FocusEffectActive(old, k) \/ FocusEffectChanged(old, new, k)

\* The cleanup returned by the focus effect: clearInterval(pollInterval);
\* softResetSub.remove(); feedCleanup() -- in sequence, a throw ends it.
FocusCleanupCalls(old, k, thr) ==
  LET f == FeedProp(old, k)
      here == thr.page = k
  IN <<Call("clearInterval", k, f, "cleanup")>>
     \o (IF here /\ thr.step = "remove"
         THEN <<Call("remove", k, f, "throws")>>
         ELSE <<Call("remove", k, f, "cleanup")>>
              \o (IF here /\ thr.step = "feedCleanup"
                  THEN <<Call("feedCleanup", k, f, "throws")>>
                  ELSE <<Call("feedCleanup", k, f, "cleanup")>>))

\* The focus effect's body: subscribe, register listeners, start the interval,
\* screen('Feed'), and feed.update() if the feed has content.
FocusSetupCalls(new, k, cs) ==
  LET f == FeedProp(new, k)
  IN <<Call("onScreenSoftReset", k, f, "setup"),
       Call("registerListeners", k, f, "setup"),
       Call("setInterval", k, f, "setup"),
       Call("screen", k, f, "setup")>>
     \o (IF cs[f].hasContent THEN <<Call("update", k, f, "setup")>> ELSE <<>>)

\* useTabFocusEffect('Home', cb): cb(isInside) when the tab is activated or
\* deactivated.
UseTabFocusEffect(old, new, k) ==
  IF Mounted(new, k) /\ old.tab # new.tab
  THEN TabFocusCallback(new, k, new.tab)
  ELSE <<>>

\* The effect on [isPageFocused, isScreenFocused, feed]: check for latest when
\* the page and the screen are focused.
PageFocusDeps(v, k) == <<IsPageFocused(v, k), IsScreenFocused(v), FeedProp(v, k)>>

\* Mutant of PageFocusEffect: isScreenFocused is missing from the dependencies,
\* so the screen gaining focus does not run the effect.
PageFocusEffectWithoutScreenDep(old, new, k) ==
  IF /\ Mounted(new, k)
     /\ \/ ~Mounted(old, k)
        \/ IsPageFocused(old, k) # IsPageFocused(new, k)
        \/ FeedProp(old, k) # FeedProp(new, k)
     /\ IsPageFocused(new, k)
     /\ IsScreenFocused(new)
  THEN <<Call("checkForLatest", k, FeedProp(new, k), "focus")>>
  ELSE <<>>

PageFocusEffect(old, new, k) ==
  IF /\ Mounted(new, k)
     /\ ~Mounted(old, k) \/ PageFocusDeps(old, k) # PageFocusDeps(new, k)
     /\ IsPageFocused(new, k)
     /\ IsScreenFocused(new)
  THEN <<Call("checkForLatest", k, FeedProp(new, k), "focus")>>
  ELSE <<>>

\* A commit runs every cleanup, then every setup, pages in render order.
RECURSIVE CommitCleanups(_, _, _, _)
CommitCleanups(keys, old, new, thr) ==
  IF keys = <<>>
  THEN <<>>
  ELSE (IF RunsCleanup(old, new, Head(keys))
        THEN FocusCleanupCalls(old, Head(keys), thr)
        ELSE <<>>)
       \o CommitCleanups(Tail(keys), old, new, thr)

RECURSIVE CommitSetups(_, _, _, _)
CommitSetups(keys, old, new, cs) ==
  IF keys = <<>>
  THEN <<>>
  ELSE (IF RunsSetup(old, new, Head(keys))
        THEN FocusSetupCalls(new, Head(keys), cs)
        ELSE <<>>)
       \o UseTabFocusEffect(old, new, Head(keys))
       \o PageFocusEffect(old, new, Head(keys))
       \o CommitSetups(Tail(keys), old, new, cs)

NewTimers(old, new, k, thr) ==
  LET kept == IF RunsCleanup(old, new, k)
              THEN ClearInterval(timers[k], DoPollClosure(old, k))
              ELSE timers[k]
  IN IF RunsSetup(old, new, k)
     THEN SetInterval(kept, DoPollClosure(new, k))
     ELSE kept

NewSubs(old, new, k, thr) ==
  LET kept == IF RunsCleanup(old, new, k) /\ ~(thr.page = k /\ thr.step = "remove")
              THEN SoftResetSubRemove(subs[k], OnSoftResetClosure(old, k))
              ELSE subs[k]
  IN IF RunsSetup(old, new, k)
     THEN OnScreenSoftReset(kept, OnSoftResetClosure(new, k))
     ELSE kept

NewListeners(old, new, k, thr) ==
  LET kept == IF RunsCleanup(old, new, k) /\ thr.page # k
              THEN FeedCleanup(listeners[k], FeedProp(old, k))
              ELSE listeners[k]
  IN IF RunsSetup(old, new, k)
     THEN RegisterListeners(kept, FeedProp(new, k))
     ELSE kept

----------------------------------------------------------------------------
(* The feed controllers (PostsFeedModel), by their contract. *)

IdleCtl == [isLoading |-> FALSE, hasContent |-> FALSE, checking |-> FALSE]

\* new PostsFeedModel(store, 'custom', {feed}) followed by setup(): the first
\* load is under way.
NewCtl == [IdleCtl EXCEPT !.isLoading = TRUE]

\* What a call does to the controllers: checkForLatest() is in flight until it
\* settles, refresh() reloads.
ApplyCall(cs, c) ==
  CASE c.op = "checkForLatest" -> [cs EXCEPT ![c.feed].checking = tracking]
    [] c.op = "refresh" -> [cs EXCEPT ![c.feed].isLoading = TRUE]
    [] OTHER -> cs

RECURSIVE ApplyCalls(_, _)
ApplyCalls(cs, cl) ==
  IF cl = <<>> THEN cs ELSE ApplyCalls(ApplyCall(cs, Head(cl)), Tail(cl))

----------------------------------------------------------------------------
(* HomeScreen. *)

\* Mutant of IsEqual: the arrays compared by reference (===), which two
\* freshly mapped arrays never satisfy.
IsEqualByReference(a, b) == FALSE

\* Mutant of IsEqual: the arrays compared as sets, so that a reordering counts
\* as no change.
IsEqualUnordered(a, b) ==
  {a[i] : i \in 1..Len(a)} = {b[i] : i \in 1..Len(b)}

\* lodash isEqual on two arrays of strings: same length, same element at
\* every position.
IsEqual(a, b) == Len(a) = Len(b) /\ \A i \in 1..Len(a) : a[i] = b[i]

FeedIds(feeds) == {feeds[i].id : i \in DOMAIN feeds}

\* The identities newly constructed controllers get: none that a controller of
\* the current array has (the pool's half the current array does not use).
FreshBase(feeds) ==
  IF \E id \in FeedIds(feeds) : id <= NumFeeds THEN NumFeeds ELSE 0

\* Mutant of BuildFeeds: the controller of a URI that stays pinned is reused.
BuildFeedsReusing(p, feeds) ==
  [i \in DOMAIN p |->
     IF \E j \in DOMAIN feeds : feeds[j].feed = p[i].uri
     THEN feeds[CHOOSE j \in DOMAIN feeds : feeds[j].feed = p[i].uri]
     ELSE [id |-> FreshBase(feeds) + i, feed |-> p[i].uri]]

\* for (const feed of pinned) { model = new PostsFeedModel(..., {feed: feed.uri});
\* model.setup(); feeds.push(model) }
BuildFeeds(p, feeds) ==
  [i \in DOMAIN p |-> [id |-> FreshBase(feeds) + i, feed |-> p[i].uri]]

ConstructCalls(feeds) ==
  [i \in DOMAIN feeds |-> Call("setup", feeds[i].feed, feeds[i].id, "reconcile")]

\* onPageSelected(index): setSelectedPage(index)
OnPageSelected(v, index) == [v EXCEPT !.sel = index]

\* Pager.setPage(index): the pager moves to the page and reports it selected.
PagerSetPage(v, index) == OnPageSelected(v, index)

\* The controllers after a rebuild: the new ones constructed and set up, the
\* discarded ones no longer tracked.
RebuiltCtl(cs, oldFeeds, newFeeds) ==
  [id \in CtlIds |->
     IF id \in FeedIds(newFeeds) THEN NewCtl
     ELSE IF id \in FeedIds(oldFeeds) THEN IdleCtl
     ELSE cs[id]]

----------------------------------------------------------------------------
(* The shell flags HomeScreen sets. *)

\* onPageSelected(index): setMinimalShellMode(false);
\* setIsDrawerSwipeDisabled(index > 0)
ShellOnPageSelected(sh, index) ==
  [minimalShellMode |-> FALSE, isDrawerSwipeDisabled |-> index > 0]

\* What the handler of an event does to the shell flags: onPageSelected on a
\* selection (by the user, or by the pager after setPage), the scroll handler
\* entering or leaving minimal shell mode.
ShellAfterHandler(sh, event, pre, new) ==
  CASE event.type = "pageSelected" -> ShellOnPageSelected(sh, new.sel)
    [] event.type = "reconcile" /\ (\E j \in DOMAIN pre : pre[j].op = "setPage")
         -> ShellOnPageSelected(sh, new.sel)
    [] event.type = "scrollDown" -> [sh EXCEPT !.minimalShellMode = TRUE]
    [] event.type = "scrollUp" -> [sh EXCEPT !.minimalShellMode = FALSE]
    [] OTHER -> sh

\* The cleanup of HomeScreen's focus effect: setIsDrawerSwipeDisabled(false)
HomeFocusCleanup(sh) == [sh EXCEPT !.isDrawerSwipeDisabled = FALSE]

\* Mutant of HomeFocusSetup: minimal shell mode is not left.
HomeFocusSetupKeepsMinimal(sh, v) == [sh EXCEPT !.isDrawerSwipeDisabled = v.sel > 0]

\* The body of HomeScreen's focus effect: setMinimalShellMode(false);
\* setIsDrawerSwipeDisabled(selectedPage > 0)
HomeFocusSetup(sh, v) ==
  [minimalShellMode |-> FALSE, isDrawerSwipeDisabled |-> v.sel > 0]

\* HomeScreen's useFocusEffect on [store, selectedPage], between the previous
\* render and the new one.
HomeFocusEffect(old, new, sh) ==
  LET was == IsScreenFocused(old)
      is == IsScreenFocused(new)
      changed == old.sel # new.sel
      cleaned == IF was /\ (~is \/ changed) THEN HomeFocusCleanup(sh) ELSE sh
  IN IF is /\ (~was \/ changed) THEN HomeFocusSetup(cleaned, new) ELSE cleaned

----------------------------------------------------------------------------
(* One event: the handler's calls (pre), then the commit of the new render. *)

ThrowChoices(old, new) ==
  {NoThrow} \cup
  (IF faulty
   THEN {[page |-> k, step |-> s] :
           k \in {q \in PageKeys : RunsCleanup(old, new, q)},
           s \in {"remove", "feedCleanup"}}
   ELSE {})

Event(type, k) == [type |-> type, page |-> k]

----------------------------------------------------------------------------
(* History of one scenario, for the main page: mounted with the app active, *)
(* the screen and the page focused and the controller not loading           *)
(* ("mounted"); one poll period elapses, that is, its interval fires once   *)
(* ("elapsed"); the page then loses page focus ("defocused").  Any event    *)
(* outside the scenario ends it ("off").  total and byTimer count the       *)
(* checkForLatest() calls on the main page since mount.                     *)

MonOff == [phase |-> "off", total |-> 0, byTimer |-> 0]

CheckCalls(cl, k, bys) ==
  Cardinality({j \in DOMAIN cl :
                 cl[j].op = "checkForLatest" /\ cl[j].page = k /\ cl[j].by \in bys})

Triggers == {"timer", "foreground", "tab", "focus"}

Saturate(n) == IF n > MaxCount THEN MaxCount ELSE n

MonNext(m, event, all, new, cs) ==
  LET counted ==
        [m EXCEPT !.total = Saturate(@ + CheckCalls(all, MainKey, Triggers)),
                  !.byTimer = Saturate(@ + CheckCalls(all, MainKey, {"timer"}))]
      inScenario ==
        /\ new.app = "active"
        /\ IsScreenFocused(new)
        /\ ~cs[MainFeed].isLoading
        /\ event.type \in {"timer", "reconcile", "setPinned", "pageSelected",
                           "loadDone", "checkDone"}
      mainTick == event = [type |-> "timer", page |-> MainKey]
      focused == IsPageFocused(new, MainKey)
  IN IF m.phase = "off" \/ ~inScenario
     THEN MonOff
     ELSE CASE m.phase = "mounted" ->
                 IF mainTick THEN [counted EXCEPT !.phase = "elapsed"]
                 ELSE IF focused THEN counted ELSE MonOff
            [] m.phase = "elapsed" ->
                 IF mainTick THEN MonOff
                 ELSE IF focused THEN counted
                 ELSE [counted EXCEPT !.phase = "defocused"]
            [] m.phase = "defocused" ->
                 IF focused THEN MonOff ELSE counted

Step(new, base, pre, event) ==
  LET old == CurView
  IN \E thr \in ThrowChoices(old, new) :
       LET all == pre \o CommitCleanups(PageSeq(old), old, new, thr)
                      \o CommitSetups(PageSeq(new), old, new, base)
       IN /\ appState' = new.app
          /\ tabInside' = new.tab
          /\ homeOnTop' = new.top
          /\ selectedPage' = new.sel
          /\ customFeeds' = new.feeds
          /\ timers' = [k \in PageKeys |-> NewTimers(old, new, k, thr)]
          /\ subs' = [k \in PageKeys |-> NewSubs(old, new, k, thr)]
          /\ listeners' = [k \in PageKeys |-> NewListeners(old, new, k, thr)]
          /\ calls' = all
          /\ ctl' = ApplyCalls(base, all)
          /\ ev' = event
          /\ crashed' = (thr # NoThrow)
          /\ mon' = MonNext(mon, event, all, new, ctl')
          /\ shell' = HomeFocusEffect(old, new,
                                      ShellAfterHandler(shell, event, pre, new))
          /\ UNCHANGED modalVars

Idle == ~effectPending /\ ~crashed

\* store.me.savedFeeds.pinned is recomputed: a new array, with the same
\* content or not.
SetPinned(p) ==
  /\ Idle
  /\ pinned' = p
  /\ effectPending' = TRUE
  /\ Step(CurView, ctl, <<>>, Event("setPinned", NoPage))
  /\ UNCHANGED <<faulty, tracking>>

\* HomeScreen's effect on [store, pinned, customFeeds, setCustomFeeds, pagerRef].
ReconcileEffect ==
  /\ effectPending
  /\ ~crashed
  /\ IF IsEqual(PinnedUris(pinned), FeedUris(customFeeds))
     THEN /\ effectPending' = FALSE
          /\ Step(CurView, ctl, <<>>, Event("reconcile", NoPage))
     ELSE LET feeds == BuildFeeds(pinned, customFeeds)
              moved == PagerSetPage(CurView, 0)
          IN /\ effectPending' = TRUE
             /\ Step([moved EXCEPT !.feeds = feeds],
                     RebuiltCtl(ctl, customFeeds, feeds),
                     ConstructCalls(feeds)
                       \o <<Call("setPage", NoPage, NoPage, "reconcile")>>,
                     Event("reconcile", NoPage))
  /\ UNCHANGED <<pinned, faulty, tracking>>

\* The pager reports a page selected (swipe or tab press).
PageSelected(index) ==
  /\ Idle
  /\ index # selectedPage
  /\ Step(OnPageSelected(CurView, index), ctl, <<>>, Event("pageSelected", NoPage))
  /\ UNCHANGED <<pinned, effectPending, faulty, tracking>>

\* useAppState's change handler: onForeground() on a change to 'active', then
\* setAppState(next).
RECURSIVE OnForeground(_, _, _)
OnForeground(keys, v, cs) ==
  IF keys = <<>>
  THEN <<>>
  ELSE DoPoll(DoPollClosure(v, Head(keys)), Head(keys), TRUE, cs, "foreground")
       \o OnForeground(Tail(keys), v, cs)

AppStateChange(next) ==
  /\ Idle
  /\ next # appState
  /\ Step([CurView EXCEPT !.app = next], ctl,
          IF next = "active" /\ appState # "active"
          THEN OnForeground(PageSeq(CurView), CurView, ctl)
          ELSE <<>>,
          Event("appState", NoPage))
  /\ UNCHANGED <<pinned, effectPending, faulty, tracking>>

\* The user switches to or away from the Home tab.
TabSwitch ==
  /\ Idle
  /\ Step([CurView EXCEPT !.tab = ~tabInside], ctl, <<>>, Event("tab", NoPage))
  /\ UNCHANGED <<pinned, effectPending, faulty, tracking>>

\* Another screen is pushed over the Home screen, or popped off it.
Navigate ==
  /\ Idle
  /\ tabInside
  /\ Step([CurView EXCEPT !.top = ~homeOnTop], ctl, <<>>, Event("navigate", NoPage))
  /\ UNCHANGED <<pinned, effectPending, faulty, tracking>>

\* An interval of page k fires: doPoll().
TimerFire(k, c) ==
  /\ Idle
  /\ c \in timers[k]
  /\ Step(CurView, ctl, DoPoll(c, k, FALSE, ctl, "timer"), Event("timer", k))
  /\ UNCHANGED <<pinned, effectPending, faulty, tracking>>

\* store.emitScreenSoftReset(): every subscribed handler runs.
RECURSIVE HandlerCalls(_, _)
HandlerCalls(ss, k) ==
  IF ss = {}
  THEN <<>>
  ELSE LET c == CHOOSE x \in ss : TRUE
       IN OnSoftReset(c, k) \o HandlerCalls(ss \ {c}, k)

RECURSIVE DeliverSoftReset(_)
DeliverSoftReset(keys) ==
  IF keys = <<>>
  THEN <<>>
  ELSE HandlerCalls(subs[Head(keys)], Head(keys)) \o DeliverSoftReset(Tail(keys))

\* All page keys in a fixed order: subscribers are not only the mounted pages.
RECURSIVE KeySeq(_)
KeySeq(n) == IF n < 0 THEN <<>> ELSE KeySeq(n - 1) \o <<n>>

EmitScreenSoftReset ==
  /\ Idle
  /\ Step(CurView, ctl, DeliverSoftReset(KeySeq(NumFeeds)), Event("softReset", NoPage))
  /\ UNCHANGED <<pinned, effectPending, faulty, tracking>>

Visible(k) ==
  /\ IsPageFocused(CurView, k)
  /\ IsScreenFocused(CurView)
  /\ appState = "active"

PressLoadLatest(k) ==
  /\ Idle
  /\ Visible(k)
  /\ Step(CurView, ctl, OnPressLoadLatest(CurView, k), Event("pressLoadLatest", k))
  /\ UNCHANGED <<pinned, effectPending, faulty, tracking>>

PressTryAgain(k) ==
  /\ Idle
  /\ Visible(k)
  /\ Step(CurView, ctl, OnPressTryAgain(CurView, k), Event("pressTryAgain", k))
  /\ UNCHANGED <<pinned, effectPending, faulty, tracking>>

\* The visible page's list is scrolled: onMainScroll enters minimal shell
\* mode on a scroll down and leaves it on a scroll up.
MainScroll(k, down) ==
  /\ Idle
  /\ Visible(k)
  /\ Step(CurView, ctl, <<>>, Event(IF down THEN "scrollDown" ELSE "scrollUp", k))
  /\ UNCHANGED <<pinned, effectPending, faulty, tracking>>

LiveIds == {MainFeed} \cup FeedIds(customFeeds)

\* A controller's load (setup or refresh) settles.
LoadDone(id) ==
  /\ Idle
  /\ id \in LiveIds
  /\ ctl[id].isLoading
  /\ Step(CurView,
          [ctl EXCEPT ![id].isLoading = FALSE, ![id].hasContent = TRUE],
          <<>>, Event("loadDone", NoPage))
  /\ UNCHANGED <<pinned, effectPending, faulty, tracking>>

\* The page a live controller is the feed of.
PageOf(v, id) == CHOOSE k \in PageKeys : Mounted(v, k) /\ FeedProp(v, k) = id

\* A controller's checkForLatest() settles: when it found newer content the
\* controller sets its hasNewLatest flag.
CheckDone(id, found) ==
  /\ Idle
  /\ id \in LiveIds
  /\ ctl[id].checking
  /\ Step(CurView,
          [ctl EXCEPT ![id].checking = FALSE],
          IF found
          THEN <<Call("setHasNewLatest", PageOf(CurView, id), id, "checkDone")>>
          ELSE <<>>,
          Event("checkDone", PageOf(CurView, id)))
  /\ UNCHANGED <<pinned, effectPending, faulty, tracking>>

----------------------------------------------------------------------------

(* The mute-list modal (CreateMuteList.tsx). *)

\* How many times the modal is opened (bound of the model).
MaxOpens == 2

MAX_NAME == 64

\* The lengths of the texts typed into the name field.
TypedLens == {0, 1, MAX_NAME, MAX_NAME + 1}

\* The URIs ListModel.createModList can resolve with, and the errors it can
\* reject with.
ListUris == {"at://list/1", "at://list/2"}
NoUri == ""
CreateErrors == {"network", "server"}

\* enforceLen(v, MAX_NAME), on the length of the text.
EnforceLen(n, max) == IF n > max THEN max ELSE n

\* The component as mounted when the modal opens: useState('') for error,
\* false for isProcessing, '' for name.
FreshComponent(i) ==
  [open |-> TRUE, inst |-> i, isProcessing |-> FALSE, error |-> "", name |-> 0]

\* store.shell.closeModal(): the open modal, if any, is closed and its
\* component unmounted (its state is gone).
CloseModal(m) ==
  [open |-> FALSE, inst |-> m.inst, isProcessing |-> FALSE, error |-> "", name |-> 0]

\* The component of instance i is mounted.
OpenInst(m, i) == m.open /\ m.inst = i

\* onPressSave up to the await: setProcessing(true); if (error) setError('')
OnSaveStart(m) == [m EXCEPT !.isProcessing = TRUE, !.error = ""]

\* The message set in the catch block: a fixed text for a network error,
\* cleanError(e) otherwise.
ErrorText(e) ==
  IF e = "network"
  THEN "Failed to create the mute-list. Check your internet connection and try again."
  ELSE "server error"

\* Mutant of OnSaveFailed: setProcessing(false) is reached only on success.
OnSaveFailedStillProcessing(m, e) == [m EXCEPT !.error = ErrorText(e)]

\* onPressSave after a rejection: setError(...) in the catch block, then
\* setProcessing(false).
OnSaveFailed(m, e) == [m EXCEPT !.error = ErrorText(e), !.isProcessing = FALSE]

ModalEvent(type, i, ok, closed, created, wasOpen) ==
  [type |-> type, inst |-> i, ok |-> ok, closed |-> closed, created |-> created,
   wasOpen |-> wasOpen]

NoModalEvent == ModalEvent("none", 0, FALSE, FALSE, NoUri, FALSE)

\* The modal is opened: a new component instance is mounted.
OpenModal ==
  /\ ~modal.open
  /\ modal.inst < MaxOpens
  /\ modal' = FreshComponent(modal.inst + 1)
  /\ mev' = ModalEvent("open", modal.inst + 1, FALSE, FALSE, NoUri, TRUE)
  /\ UNCHANGED <<reqs, homeVars>>

\* onChangeText of the name field: setName(enforceLen(v, MAX_NAME))
ChangeName(n) ==
  /\ modal.open
  /\ modal' = [modal EXCEPT !.name = EnforceLen(n, MAX_NAME)]
  /\ mev' = ModalEvent("name", modal.inst, FALSE, FALSE, NoUri, TRUE)
  /\ UNCHANGED <<reqs, homeVars>>

\* The save button is pressed (it is rendered only while not processing):
\* onPressSave runs up to the await of ListModel.createModList.
PressSave ==
  /\ modal.open
  /\ ~modal.isProcessing
  /\ modal' = OnSaveStart(modal)
  /\ reqs' = reqs \cup {[inst |-> modal.inst, name |-> modal.name]}
  /\ mev' = ModalEvent("save", modal.inst, FALSE, FALSE, NoUri, TRUE)
  /\ UNCHANGED homeVars

\* onPressCancel(): store.shell.closeModal()
PressCancel ==
  /\ modal.open
  /\ modal' = CloseModal(modal)
  /\ mev' = ModalEvent("cancel", modal.inst, FALSE, TRUE, NoUri, TRUE)
  /\ UNCHANGED <<reqs, homeVars>>

\* createModList resolves: Toast.show, onCreate?.(res.uri), closeModal(),
\* setProcessing(false) (on a component that is unmounted by then).
SaveResolves(r, uri) ==
  /\ r \in reqs
  /\ reqs' = reqs \ {r}
  /\ modal' = CloseModal(modal)
  /\ mev' = ModalEvent("settled", r.inst, TRUE, TRUE, uri, OpenInst(modal, r.inst))
  /\ UNCHANGED homeVars

\* createModList rejects: setError(...), setProcessing(false); both are
\* no-ops when the component has been unmounted meanwhile.
SaveRejects(r, e) ==
  /\ r \in reqs
  /\ reqs' = reqs \ {r}
  /\ modal' = IF OpenInst(modal, r.inst) THEN OnSaveFailed(modal, e) ELSE modal
  /\ mev' = ModalEvent("settled", r.inst, FALSE, FALSE, NoUri, OpenInst(modal, r.inst))
  /\ UNCHANGED homeVars

----------------------------------------------------------------------------

\* The first render: no custom feeds yet, the main page selected and mounted,
\* its effects run, the reconcile effect about to run.
InitView ==
  [app |-> "active", tab |-> TRUE, top |-> TRUE, sel |-> 0, feeds |-> <<>>]

InitCalls(cs) ==
  FocusSetupCalls(InitView, MainKey, cs)
  \o <<Call("checkForLatest", MainKey, MainFeed, "focus")>>

InitWith(f, t) ==
  /\ faulty = f
  /\ tracking = t
  /\ pinned \in PinnedSeqs
  /\ customFeeds = <<>>
  /\ selectedPage = 0
  /\ effectPending = TRUE
  /\ appState = "active"
  /\ tabInside = TRUE
  /\ homeOnTop = TRUE
  /\ \E l, h \in BOOLEAN :
       /\ l \/ h
       /\ LET cs == [id \in CtlIds |->
                    IF id = MainFeed
                    THEN [IdleCtl EXCEPT !.isLoading = l, !.hasContent = h]
                    ELSE IdleCtl]
          IN /\ ctl = ApplyCalls(cs, InitCalls(cs))
             /\ calls = InitCalls(cs)
             /\ mon = IF l
                      THEN MonOff
                      ELSE [phase |-> "mounted",
                            total |-> CheckCalls(InitCalls(cs), MainKey, Triggers),
                            byTimer |-> 0]
  /\ timers = [k \in PageKeys |->
                 IF k = MainKey THEN {DoPollClosure(InitView, k)} ELSE {}]
  /\ subs = [k \in PageKeys |->
               IF k = MainKey THEN {OnSoftResetClosure(InitView, k)} ELSE {}]
  /\ listeners = [k \in PageKeys |-> IF k = MainKey THEN {MainFeed} ELSE {}]
  /\ ev = Event("mount", NoPage)
  /\ crashed = FALSE
  /\ shell = HomeFocusSetup([minimalShellMode |-> FALSE,
                             isDrawerSwipeDisabled |-> FALSE], InitView)
  /\ modal = CloseModal([inst |-> 0])
  /\ reqs = {}
  /\ mev = NoModalEvent

Init == InitWith(FALSE, FALSE)

Next ==
  \/ \E p \in PinnedSeqs : SetPinned(p)
  \/ ReconcileEffect
  \/ \E i \in 0..Len(customFeeds) : PageSelected(i)
  \/ \E a \in AppStates : AppStateChange(a)
  \/ TabSwitch
  \/ Navigate
  \/ \E k \in PageKeys : \E c \in timers[k] : TimerFire(k, c)
  \/ EmitScreenSoftReset
  \/ \E k \in PageKeys : PressLoadLatest(k)
  \/ \E k \in PageKeys : PressTryAgain(k)
  \/ \E id \in CtlIds : LoadDone(id)

Spec == Init /\ [][Next]_vars

\* The same program with collaborators whose teardown handles may throw, in
\* the behaviours where nothing is pressed and no interval fires.
InitThrow == InitWith(TRUE, FALSE)

NextThrow ==
  \/ \E p \in PinnedSeqs : SetPinned(p)
  \/ ReconcileEffect
  \/ \E i \in 0..Len(customFeeds) : PageSelected(i)
  \/ \E a \in AppStates : AppStateChange(a)
  \/ TabSwitch
  \/ Navigate
  \/ \E id \in CtlIds : LoadDone(id)

SpecThrow == InitThrow /\ [][NextThrow]_vars

\* The same program with the completion of checkForLatest() calls followed,
\* in the behaviours where the pinned list stays as it was at start-up,
\* nothing is pressed and no screen is pushed over the Home screen.
InitAsync == InitWith(FALSE, TRUE)

NextAsync ==
  \/ ReconcileEffect
  \/ \E i \in 0..Len(customFeeds) : PageSelected(i)
  \/ \E a \in AppStates : AppStateChange(a)
  \/ TabSwitch
  \/ \E k \in PageKeys : \E c \in timers[k] : TimerFire(k, c)
  \/ \E id \in CtlIds : LoadDone(id)
  \/ \E id \in CtlIds, found \in BOOLEAN : CheckDone(id, found)

SpecAsync == InitAsync /\ [][NextAsync]_vars

\* The same program with the lists scrolled, in the behaviours where the app
\* stays active, nothing is pressed and no interval fires.
NextShell ==
  \/ \E p \in PinnedSeqs : SetPinned(p)
  \/ ReconcileEffect
  \/ \E i \in 0..Len(customFeeds) : PageSelected(i)
  \/ TabSwitch
  \/ Navigate
  \/ \E id \in CtlIds : LoadDone(id)
  \/ \E k \in PageKeys, down \in BOOLEAN : MainScroll(k, down)

SpecShell == Init /\ [][NextShell]_vars

\* The mute-list modal alone, over a Home screen at rest.
InitModal == Init /\ pinned = <<>> /\ ~ctl[MainFeed].isLoading

NextModal ==
  \/ OpenModal
  \/ \E n \in TypedLens : ChangeName(n)
  \/ PressSave
  \/ PressCancel
  \/ \E r \in reqs, uri \in ListUris : SaveResolves(r, uri)
  \/ \E r \in reqs, e \in CreateErrors : SaveRejects(r, e)

SpecModal == InitModal /\ [][NextModal]_vars

----------------------------------------------------------------------------
(* Properties. *)

HasCall(cl, op) == \E j \in DOMAIN cl : cl[j].op = op

\* The reconcile effect is about to run (nothing else can).
Reconciling == effectPending /\ ~crashed

SameSequence == PinnedUris(pinned) = FeedUris(customFeeds)

\* C1: a reconciliation run that finds the pinned URI sequence equal to the
\* sequence of the URIs of the current controllers constructs no controller,
\* keeps the controller array (the same instances in the same order) and keeps
\* the page index.
C1_EqualSequenceChangesNothing ==
  [][(Reconciling /\ SameSequence)
       => /\ customFeeds' = customFeeds
          /\ selectedPage' = selectedPage
          /\ ~HasCall(calls', "setup")
          /\ ~HasCall(calls', "setPage")
          /\ ctl' = ctl]_vars

\* A reconciliation has just found the sequences equal while a custom page
\* was selected.
C1_Witness ==
  /\ ev.type = "reconcile"
  /\ ~effectPending
  /\ Len(customFeeds) > 0
  /\ selectedPage > 0

\* C2: a reconciliation run that finds the sequences different (reorder,
\* addition, removal) leaves an array of newly constructed controllers, each set
\* up, one per pinned URI in the pinned order, none of them a controller of
\* the previous array, and the page index 0.
C2_DifferentSequenceRebuilds ==
  [][(Reconciling /\ ~SameSequence)
       => /\ FeedUris(customFeeds') = PinnedUris(pinned)
          /\ FeedIds(customFeeds') \cap FeedIds(customFeeds) = {}
          /\ Cardinality(FeedIds(customFeeds')) = Len(pinned)
          /\ \A i \in DOMAIN customFeeds' :
               /\ \E j \in DOMAIN calls' :
                    calls'[j] = Call("setup", customFeeds'[i].feed,
                                     customFeeds'[i].id, "reconcile")
               /\ ctl'[customFeeds'[i].id].isLoading
          /\ selectedPage' = 0]_vars

\* A rebuild has just replaced the controllers of both pages of a two-feed
\* array by those of the reordered set.
C2_Witness ==
  /\ ev.type = "reconcile"
  /\ effectPending
  /\ Len(customFeeds) = 2
  /\ customFeeds[1].feed > customFeeds[2].feed
  /\ \A k \in {customFeeds[1].feed, customFeeds[2].feed} :
       \E j \in DOMAIN calls :
         /\ calls[j].op = "clearInterval"
         /\ calls[j].page = k
         /\ calls[j].feed # FeedProp(CurView, k)
  /\ selectedPage = 0

\* C3 as stated: across a reconciliation, a pinned feed whose descriptor is
\* the same before and after keeps its controller instance.
C3_SameDescriptorKeepsController ==
  [][\A k \in URIs :
       (Mounted(CurView, k) /\ Mounted(CurView', k))
         => FeedProp(CurView', k) = FeedProp(CurView, k)]_vars

\* C3 as amended: the controllers change only in a reconciliation run that
\* finds the pinned URI sequence different from the current one, and such a
\* run replaces every controller, those of unchanged descriptors included.
C3_ReplacedOnlyBySequenceChange ==
  [][/\ (customFeeds' # customFeeds) => (Reconciling /\ ~SameSequence)
     /\ (Reconciling /\ ~SameSequence)
          => \A k \in URIs :
               (Mounted(CurView, k) /\ Mounted(CurView', k))
                 => FeedProp(CurView', k) # FeedProp(CurView, k)]_vars

\* A rebuild has just given a feed that stayed pinned a new controller.
C3_Witness ==
  /\ ev.type = "reconcile"
  /\ effectPending
  /\ \E k \in URIs :
       /\ Mounted(CurView, k)
       /\ \E j \in DOMAIN calls :
            /\ calls[j].op = "clearInterval"
            /\ calls[j].page = k
            /\ calls[j].feed # FeedProp(CurView, k)

\* The page is mounted and focused: its page is selected and the screen is
\* focused.
Focused(v, k) == Mounted(v, k) /\ IsPageFocused(v, k) /\ IsScreenFocused(v)

\* checkForLatest() was invoked on page k's controller.
InvokedFor(cl, k) ==
  \E j \in DOMAIN cl : cl[j].op = "checkForLatest" /\ cl[j].page = k

\* C4: when an interval of a page fires, checkForLatest() is invoked if and
\* only if, at that moment, the app is active, the screen and the page are
\* focused and the page's controller is not loading; so from the moment one
\* of the three flags is false until all are true again no firing invokes it.
C4_TimerChecksIffAllHold ==
  [][ev'.type = "timer"
       => LET k == ev'.page
          IN /\ InvokedFor(calls', k)
                  <=> /\ appState = "active"
                      /\ IsScreenFocused(CurView)
                      /\ IsPageFocused(CurView, k)
                      /\ ~ctl[FeedProp(CurView, k)].isLoading
             /\ \A j \in DOMAIN calls' :
                  calls'[j] = Call("checkForLatest", k, FeedProp(CurView, k), "timer")
             /\ Len(calls') <= 1]_vars

\* The interval of a custom page has just fired and invoked checkForLatest().
C4_Witness ==
  /\ ev.type = "timer"
  /\ ev.page # MainKey
  /\ InvokedFor(calls, ev.page)

AppEdge == appState # "active" /\ appState' = "active"
ScreenEdge == ~IsScreenFocused(CurView) /\ IsScreenFocused(CurView')
PageEdge(k) == ~IsPageFocused(CurView, k) /\ IsPageFocused(CurView', k)
StaysMounted(k) == Mounted(CurView, k) /\ Mounted(CurView', k)

\* C5 as stated: on each false-to-true transition of app-foreground,
\* screen-focus or page-focus, checkForLatest() is invoked on the page if and
\* only if the other two signals hold.
C5_EdgeChecksIffOtherTwoHold ==
  [][\A k \in PageKeys :
       StaysMounted(k)
         => /\ AppEdge
                 => (InvokedFor(calls', k)
                       <=> IsScreenFocused(CurView') /\ IsPageFocused(CurView', k))
            /\ ScreenEdge
                 => (InvokedFor(calls', k)
                       <=> appState' = "active" /\ IsPageFocused(CurView', k))
            /\ PageEdge(k)
                 => (InvokedFor(calls', k)
                       <=> appState' = "active" /\ IsScreenFocused(CurView'))]_vars

\* C5 as amended: on the app becoming active, checkForLatest() is invoked on a
\* page iff the screen and the page are focused and its controller is not
\* loading; on the screen gaining focus, iff the page is focused; on the page
\* gaining focus, iff the screen is focused -- in the last two cases whatever
\* the app state and the loading flag.
C5_EdgeChecks ==
  [][\A k \in PageKeys :
       StaysMounted(k)
         => /\ AppEdge
                 => (InvokedFor(calls', k)
                       <=> /\ IsScreenFocused(CurView)
                           /\ IsPageFocused(CurView, k)
                           /\ ~ctl[FeedProp(CurView, k)].isLoading)
            /\ ScreenEdge => (InvokedFor(calls', k) <=> IsPageFocused(CurView', k))
            /\ PageEdge(k) => (InvokedFor(calls', k) <=> IsScreenFocused(CurView'))]_vars

\* A page has just gained page focus while the app was not active, and
\* checkForLatest() was invoked on it.
C5_Witness ==
  /\ ev.type \in {"pageSelected", "reconcile"}
  /\ appState # "active"
  /\ \E k \in PageKeys :
       /\ Focused(CurView, k)
       /\ \E j \in DOMAIN calls :
            calls[j] = Call("checkForLatest", k, FeedProp(CurView, k), "focus")

\* C6 as stated: for a page mounted with the three flags true and a
\* controller that is not loading, the number of checkForLatest() invocations
\* once one poll period has elapsed is exactly one, and it is still one after
\* the page has lost page focus, however many periods elapse.
C6_OneCheckAfterOnePeriod ==
  mon.phase \in {"elapsed", "defocused"} => mon.total = 1

\* C6 as amended: once one poll period has elapsed the interval has invoked
\* checkForLatest() exactly once, on top of the invocation the page-focus
\* effect made at mount (a total of at least two); after the page has lost
\* page focus the total does not grow, however many periods elapse.
C6_OneTimerCheckAfterOnePeriod ==
  /\ [](mon.phase \in {"elapsed", "defocused"}
          => mon.byTimer = 1 /\ mon.total >= 2)
  /\ [][(mon.phase \in {"elapsed", "defocused"} /\ mon'.phase = "defocused")
          => mon'.total = mon.total]_vars

\* In the scenario, after the main page lost page focus, its interval has
\* just fired again.
C6_Witness ==
  /\ mon.phase = "defocused"
  /\ ev = Event("timer", MainKey)

PageCalls(cl, k) == SelectSeq(cl, LAMBDA c : c.page = k)

\* C7: on a soft reset, a subscribed page that is not the selected page makes
\* no scroll-to-top and no refresh() call, and the selected page makes exactly
\* one scroll-to-top and then exactly one refresh(); no other call is made.
C7_SoftResetActsOnFocusedPageOnly ==
  ev.type = "softReset"
    => \A k \in PageKeys :
         PageCalls(calls, k)
           = IF subs[k] # {} /\ IsPageFocused(CurView, k)
             THEN <<Call("scrollToTop", k, FeedProp(CurView, k), "softReset"),
                    Call("refresh", k, FeedProp(CurView, k), "softReset")>>
             ELSE <<>>

\* A soft reset has just been delivered to three subscribed pages, of which a
\* custom page is the selected one.
C7_Witness ==
  /\ ev.type = "softReset"
  /\ selectedPage > 0
  /\ Cardinality({k \in PageKeys : subs[k] # {}}) >= 3
  /\ Len(calls) = 2

TeardownOps == {"clearInterval", "remove", "feedCleanup"}

\* C9: if one of the three teardown steps of a page throws, the other two
\* are still executed.
C9_TeardownStepsIndependent ==
  \A k \in PageKeys :
    (\E j \in DOMAIN calls : calls[j].page = k /\ calls[j].by = "throws")
      => \A op \in TeardownOps :
           \E j \in DOMAIN calls : calls[j].page = k /\ calls[j].op = op

\* C10: the result of a checkForLatest() that settles when its page is no
\* longer mounted and focused has no effect.
C10_LateResultDiscarded ==
  (ev.type = "checkDone" /\ ~Focused(CurView, ev.page))
    => ~HasCall(calls, "setHasNewLatest")

\* C11: at most one page, among the main page and the custom-feed pages,
\* has pageFocused true.
C11_AtMostOnePageFocused ==
  Cardinality({k \in PageKeys : IsPageFocused(CurView, k)}) <= 1

\* With two custom pages mounted, the second one has just been selected.
C11_Witness ==
  /\ ev.type = "pageSelected"
  /\ Len(customFeeds) = 2
  /\ selectedPage = 2
  /\ IsPageFocused(CurView, customFeeds[2].feed)

\* C12: when the reconciliation has completed for the current pinned list,
\* page 0 is the main feed and page i, for i in 1..N, is bound to the i-th
\* pinned URI: same length, same order.
C12_PagesFollowPinned ==
  Reconciling \/ crashed
    \/ /\ PageSeq(CurView) = <<MainKey>> \o PinnedUris(pinned)
       /\ PageIndex(CurView, MainKey) = 0
       /\ FeedProp(CurView, MainKey) = MainFeed
       /\ Len(customFeeds) = Len(pinned)
       /\ \A i \in DOMAIN pinned :
            LET k == pinned[i].uri
            IN /\ PageIndex(CurView, k) = i
               /\ customFeeds[i].feed = k
               /\ FeedProp(CurView, k) = customFeeds[i].id

\* The reconciliation has completed for a pinned list of two feeds, the
\* larger URI first.
C12_Witness ==
  /\ ~effectPending
  /\ Len(pinned) = 2
  /\ pinned[1].uri > pinned[2].uri
  /\ FeedUris(customFeeds) = PinnedUris(pinned)

HasPageCall(cl, op, k) ==
  \E j \in DOMAIN cl : cl[j].op = op /\ cl[j].page = k

Acts(cl, k) == \E j \in DOMAIN cl : cl[j].page = k /\ cl[j].by = "softReset"

\* C14: the act/ignore decision of a page's soft-reset handler uses the
\* page's focus flag as it is when the signal is delivered: the subscribed
\* handler always holds the current flag, and on a delivery a subscribed page
\* acts if and only if it is the selected page at that moment.
C14_DecisionUsesCurrentFocus ==
  /\ [](\A k \in PageKeys : \A c \in subs[k] : c.page = IsPageFocused(CurView, k))
  /\ [][ev'.type = "softReset"
          => \A k \in PageKeys :
               Acts(calls', k) <=> (subs[k] # {} /\ IsPageFocused(CurView, k))]_vars

\* A soft reset has just been delivered with a custom page selected.  Custom
\* pages mount and subscribe unfocused (a rebuild selects page 0) and the main
\* page subscribes focused: the custom page, focused since, acts, and the main
\* page, unfocused since, does not.
C14_Witness ==
  /\ ev.type = "softReset"
  /\ Len(customFeeds) = 2
  /\ selectedPage = 2
  /\ Acts(calls, customFeeds[2].feed)
  /\ subs[MainKey] # {}
  /\ ~Acts(calls, MainKey)

\* C15 as stated: every mounted page holds a soft-reset subscription for as
\* long as it is mounted.
C15_SubscribedWhileMounted ==
  \A k \in PageKeys : Mounted(CurView, k) => subs[k] # {}

\* C15 as amended: a page holds a soft-reset subscription exactly while it is
\* mounted and its screen is focused, whatever its pageFocused flag: a change
\* of pageFocused leaves the page subscribed (by a new subscription), the
\* screen losing focus removes the subscription, and the delivery of a signal
\* changes no subscription.
C15_SubscribedWhileScreenFocused ==
  /\ [](\A k \in PageKeys :
          subs[k] # {} <=> (Mounted(CurView, k) /\ IsScreenFocused(CurView)))
  /\ [][ev'.type = "softReset" => subs' = subs]_vars

\* A signal has just been delivered while a mounted page whose pageFocused is
\* false was subscribed; it made no call and is still subscribed.
C15_Witness ==
  /\ ev.type = "softReset"
  /\ \E k \in PageKeys :
       /\ Mounted(CurView, k)
       /\ ~IsPageFocused(CurView, k)
       /\ subs[k] # {}
       /\ ~Acts(calls, k)

\* C17: a rebuild installs a controller array whose URI sequence equals the
\* pinned one, so the reconciliation it re-triggers makes no change and ends
\* the reconciling: controllers are constructed once per change of the pinned
\* list and the rebuild does not loop.
C17_RebuildReachesFixedPoint ==
  /\ [][(ev'.type = "reconcile" /\ HasCall(calls', "setPage"))
          => /\ IsEqual(PinnedUris(pinned'), FeedUris(customFeeds'))
             /\ effectPending']_vars
  /\ [][(ev.type = "reconcile" /\ HasCall(calls, "setPage"))
          => /\ ev'.type = "reconcile"
             /\ ~HasCall(calls', "setup")
             /\ ~HasCall(calls', "setPage")
             /\ customFeeds' = customFeeds
             /\ selectedPage' = selectedPage
             /\ ~effectPending']_vars

\* The reconciliation re-triggered by a rebuild of two controllers has just
\* run and changed nothing.
C17_Witness ==
  /\ ev.type = "reconcile"
  /\ ~effectPending
  /\ calls = <<>>
  /\ Len(customFeeds) = 2
  /\ \A i \in DOMAIN customFeeds : ctl[customFeeds[i].id] = NewCtl

CountPageCalls(cl, op, k) ==
  Cardinality({j \in DOMAIN cl : cl[j].op = op /\ cl[j].page = k})

Before(cl, a, b, k) ==
  \A i, j \in DOMAIN cl :
    (cl[i].page = k /\ cl[i].op = a /\ cl[j].page = k /\ cl[j].op = b) => i < j

\* C18: each page has at most one live poll timer, one live soft-reset
\* subscription and one live content-listener registration, and an unmounted
\* page has none; a setup run registers each once, and where registrations
\* are live it comes after the teardown that releases each of them once.
C18_AtMostOneRegistration ==
  /\ [](\A k \in PageKeys :
          /\ Cardinality(timers[k]) <= 1
          /\ Cardinality(subs[k]) <= 1
          /\ Cardinality(listeners[k]) <= 1
          /\ ~Mounted(CurView, k)
               => timers[k] = {} /\ subs[k] = {} /\ listeners[k] = {})
  /\ [][\A k \in PageKeys :
          /\ \A op \in {"setInterval", "onScreenSoftReset", "registerListeners",
                        "clearInterval", "remove", "feedCleanup"} :
               CountPageCalls(calls', op, k) <= 1
          /\ HasPageCall(calls', "setInterval", k)
               => /\ HasPageCall(calls', "onScreenSoftReset", k)
                  /\ HasPageCall(calls', "registerListeners", k)
                  /\ timers[k] # {} => HasPageCall(calls', "clearInterval", k)
                  /\ subs[k] # {} => HasPageCall(calls', "remove", k)
                  /\ listeners[k] # {} => HasPageCall(calls', "feedCleanup", k)
          /\ Before(calls', "clearInterval", "setInterval", k)
          /\ Before(calls', "remove", "onScreenSoftReset", k)
          /\ Before(calls', "feedCleanup", "registerListeners", k)
          /\ HasPageCall(calls', "clearInterval", k)
               => /\ timers[k] # {}
                  /\ HasPageCall(calls', "remove", k)
                  /\ HasPageCall(calls', "feedCleanup", k)]_vars

\* A custom page has just been unpinned and so unmounted: its teardown ran
\* and it has no registration left.
C18_Witness ==
  /\ ev.type = "reconcile"
  /\ \E k \in URIs :
       /\ ~Mounted(CurView, k)
       /\ HasPageCall(calls, "clearInterval", k)
       /\ HasPageCall(calls, "remove", k)
       /\ HasPageCall(calls, "feedCleanup", k)
       /\ timers[k] = {} /\ subs[k] = {} /\ listeners[k] = {}

\* C19: by no trigger (timer, app foreground, tab focus, page/screen focus
\* effect) is checkForLatest() invoked on the controller of a page whose
\* pageFocused is false.
C19_NoCheckOnUnfocusedPage ==
  \A j \in DOMAIN calls :
    calls[j].op = "checkForLatest"
      => /\ calls[j].by \in Triggers
         /\ IsPageFocused(CurView, calls[j].page)
         /\ calls[j].feed = FeedProp(CurView, calls[j].page)

\* The Home tab has just been entered while two custom pages were mounted
\* and one of them selected: the tab-focus callback checked that page only.
C19_Witness ==
  /\ ev.type = "tab"
  /\ Len(customFeeds) = 2
  /\ selectedPage > 0
  /\ \E j \in DOMAIN calls : calls[j].op = "checkForLatest" /\ calls[j].by = "tab"

\* C16: after every change of the page index and after every gain of screen
\* focus, isDrawerSwipeDisabled equals (selectedPage # 0) and minimalShellMode
\* is false.
C16_ShellFlagsRecomputed ==
  [][(selectedPage' # selectedPage \/ ScreenEdge)
       => /\ shell'.isDrawerSwipeDisabled = (selectedPage' # 0)
          /\ ~shell'.minimalShellMode]_vars

\* The screen has just regained focus with a custom page selected: the drawer
\* swipe, enabled by the cleanup when the screen lost focus, is disabled again.
C16_Witness ==
  /\ ev.type \in {"tab", "navigate"}
  /\ IsScreenFocused(CurView)
  /\ selectedPage > 0
  /\ shell.isDrawerSwipeDisabled
  /\ ~shell.minimalShellMode

\* C20 as stated: isProcessing is true while createModList is in flight and
\* false once it has settled; the modal is closed, and onCreate called with
\* the created URI, if and only if the creation succeeded; on failure the
\* modal stays open with the error set.
C20_SaveClosesIffCreated ==
  /\ \A r \in reqs : OpenInst(modal, r.inst) /\ modal.isProcessing
  /\ mev.type = "settled"
       => /\ ~(OpenInst(modal, mev.inst) /\ modal.isProcessing)
          /\ mev.ok => (~modal.open /\ mev.created \in ListUris)
          /\ ~mev.ok => /\ OpenInst(modal, mev.inst)
                        /\ modal.error # ""
                        /\ mev.created = NoUri

\* C20 as amended: while the modal stays open, isProcessing is true exactly
\* while the createModList of its save is in flight; when it settles, the
\* handler closes the modal and calls onCreate with the created URI if and
\* only if the creation succeeded, and on failure it sets the error, calls
\* neither and leaves the modal as it is: open, unless Cancel was pressed
\* during the flight.
C20_SaveHandlerSettles ==
  /\ \A r \in reqs : OpenInst(modal, r.inst) => modal.isProcessing
  /\ (modal.open /\ modal.isProcessing) => \E r \in reqs : r.inst = modal.inst
  /\ mev.type = "settled"
       => /\ mev.ok => /\ mev.closed
                       /\ ~modal.open
                       /\ mev.created \in ListUris
          /\ ~mev.ok => /\ ~mev.closed
                        /\ mev.created = NoUri
                        /\ OpenInst(modal, mev.inst) = mev.wasOpen
                        /\ mev.wasOpen => (modal.error # "" /\ ~modal.isProcessing)

\* A creation has just failed with the modal open: the modal is still open,
\* shows the error and offers the save button again.
C20_Witness ==
  /\ mev.type = "settled"
  /\ ~mev.ok
  /\ mev.wasOpen
  /\ modal.open
  /\ modal.error # ""
  /\ ~modal.isProcessing
  /\ modal.name = MAX_NAME

====
